---- MODULE Spec2Model ----
(***************************************************************************)
(* The lula front end: Lexer (src/src/lexer.rs), Parser (src/src/parser.rs) *)
(* and the tree-walking evaluator (src/src/expr.rs, src/src/statement.rs), *)
(* run in sequence by main (src/src/main.rs).                              *)
(*                                                                         *)
(* A source text is a sequence of one-character strings.  A Position is    *)
(* <<line, column>>, 0-based.  stderr is the sequence of diagnostics the   *)
(* three phases print, stdout the sequence of printed literals.            *)
(***************************************************************************)
EXTENDS Integers, Sequences, FiniteSets, TLC

VARIABLES
    source,          \* the text main read from the input file
    pc,              \* where main is: "lex", "parse", "sync", "run", "exit", "panic"
    lexer,           \* the Lexer struct
    tokens,          \* collect_tokens' local tokens
    contains_error,  \* collect_tokens' local contains_error
    lex_result,      \* what collect_tokens returned: "Pending", "Some", "None"
    parser,          \* the Parser struct
    statements,      \* collect_statements' local statements
    parse_error,     \* collect_statements' local contains_error
    parse_result,    \* what collect_statements returned
    next_stmt,       \* main's position in its for loop over the statements
    stderr,          \* the diagnostics printed so far
    stdout           \* the lines printed so far

vars == <<source, pc, lexer, tokens, contains_error, lex_result, parser, statements,
          parse_error, parse_result, next_stmt, stderr, stdout>>

----------------------------------------------------------------------------
(* Characters *)

LF == "\n"
CR == "\r"
TAB == "\t"
QUOTE == "\""
BACKSLASH == "\\"
\* what Lexer::peek yields past the end of the source, and the value of the escape \0
NUL == "NUL"

Alphabetic == {"a","b","c","d","e","f","g","h","i","j","k","l","m",
               "n","o","p","q","r","s","t","u","v","w","x","y","z",
               "A","B","C","D","E","F","G","H","I","J","K","L","M",
               "N","O","P","Q","R","S","T","U","V","W","X","Y","Z"}

Digit == {"0","1","2","3","4","5","6","7","8","9"}

DigitValue(c) ==
    CASE c = "0" -> 0 [] c = "1" -> 1 [] c = "2" -> 2 [] c = "3" -> 3
      [] c = "4" -> 4 [] c = "5" -> 5 [] c = "6" -> 6 [] c = "7" -> 7
      [] c = "8" -> 8 [] c = "9" -> 9

\* char::is_ascii_whitespace (the form feed is not in any input of the model)
AsciiWhitespace == {" ", TAB, CR, LF}

----------------------------------------------------------------------------
(* Tokens and literals *)

\* A number is the exact rational n/d (d > 0, lowest terms); d = 0 stands for
\* the IEEE-754 specials: 1/0 = +inf, -1/0 = -inf, 0/0 = NaN.
Num(n) == [n |-> n, d |-> 1]

NoLit == [t |-> "None", v |-> 0]
Identifier(s) == [t |-> "Identifier", v |-> s]
String(s) == [t |-> "String", v |-> s]
Number(x) == [t |-> "Number", v |-> x]
Bool(b) == [t |-> "Bool", v |-> b]
Nil == [t |-> "Nil", v |-> 0]

Token(kind, position) == [kind |-> kind, lit |-> NoLit, position |-> position]
LiteralToken(lit, position) == [kind |-> "Literal", lit |-> lit, position |-> position]

\* the KEYWORDS table, entry by entry
KEYWORDS ==
    << [name |-> <<"t","r","u","e">>, kind |-> "Literal", lit |-> Bool(TRUE)],
       [name |-> <<"f","a","l","s","e">>, kind |-> "Literal", lit |-> Bool(FALSE)],
       [name |-> <<"n","i","l">>, kind |-> "Literal", lit |-> Nil],
       [name |-> <<"i","f">>, kind |-> "If", lit |-> NoLit],
       [name |-> <<"e","l","i","f">>, kind |-> "Elif", lit |-> NoLit],
       [name |-> <<"e","l","s","e">>, kind |-> "Else", lit |-> NoLit],
       [name |-> <<"a","n","d">>, kind |-> "And", lit |-> NoLit],
       [name |-> <<"o","r">>, kind |-> "Or", lit |-> NoLit],
       [name |-> <<"f","u","n","c">>, kind |-> "Func", lit |-> NoLit],
       [name |-> <<"l","e","t">>, kind |-> "Let", lit |-> NoLit],
       [name |-> <<"l","o","o","p">>, kind |-> "Loop", lit |-> NoLit],
       [name |-> <<"b","r","e","a","k">>, kind |-> "Break", lit |-> NoLit],
       [name |-> <<"c","o","n","t","i","n","u","e">>, kind |-> "Continue", lit |-> NoLit],
       [name |-> <<"p","r","i","n","t">>, kind |-> "Print", lit |-> NoLit] >>

Diag(cat, msg, position) == [cat |-> cat, msg |-> msg, position |-> position]

----------------------------------------------------------------------------
(* f64 arithmetic on the values the model reaches: exact rationals (rounding *)
(* and the sign of zero are not modelled) and the specials inf, -inf, NaN.  *)

Abs(i) == IF i < 0 THEN -i ELSE i
Sign(i) == IF i < 0 THEN -1 ELSE IF i > 0 THEN 1 ELSE 0

RECURSIVE Gcd(_, _)
Gcd(a, b) == IF b = 0 THEN a ELSE Gcd(b, a % b)

\* n/d in lowest terms with a positive denominator (d # 0)
Ratio(n, d) ==
    LET g == Gcd(Abs(n), Abs(d))
    IN  [n |-> Sign(d) * (n \div g), d |-> Abs(d) \div g]

NaN == [n |-> 0, d |-> 0]
Inf(sign) == [n |-> sign, d |-> 0]
IsNaN(x) == x.d = 0 /\ x.n = 0
IsInf(x) == x.d = 0 /\ x.n # 0

F64Neg(x) == [n |-> -x.n, d |-> x.d]

F64Add(x, y) ==
    IF IsNaN(x) \/ IsNaN(y) THEN NaN
    ELSE IF IsInf(x) THEN (IF IsInf(y) /\ y.n # x.n THEN NaN ELSE x)
    ELSE IF IsInf(y) THEN y
    ELSE Ratio(x.n * y.d + y.n * x.d, x.d * y.d)

F64Sub(x, y) == F64Add(x, F64Neg(y))

F64Mul(x, y) ==
    IF IsNaN(x) \/ IsNaN(y) THEN NaN
    ELSE IF IsInf(x) \/ IsInf(y)
         THEN (IF x.n = 0 \/ y.n = 0 THEN NaN ELSE Inf(Sign(x.n) * Sign(y.n)))
         ELSE Ratio(x.n * y.n, x.d * y.d)

F64Div(x, y) ==
    IF IsNaN(x) \/ IsNaN(y) THEN NaN
    ELSE IF IsInf(x) THEN (IF IsInf(y) THEN NaN ELSE Inf(x.n * (IF y.n < 0 THEN -1 ELSE 1)))
    ELSE IF IsInf(y) THEN Num(0)
    ELSE IF y.n = 0 THEN (IF x.n = 0 THEN NaN ELSE Inf(Sign(x.n)))
    ELSE Ratio(x.n * y.d, x.d * y.n)

\* the remainder of the truncated division, as fmod
F64Rem(x, y) ==
    IF IsNaN(x) \/ IsNaN(y) \/ IsInf(x) THEN NaN
    ELSE IF IsInf(y) THEN x
    ELSE IF y.n = 0 THEN NaN
    ELSE LET q == Ratio(x.n * y.d, x.d * y.n)
             trunc == Sign(q.n) * (Abs(q.n) \div q.d)
         IN  F64Sub(x, F64Mul(Num(trunc), y))

F64Eq(x, y) == ~IsNaN(x) /\ ~IsNaN(y) /\ x = y

F64Lt(x, y) ==
    /\ ~IsNaN(x) /\ ~IsNaN(y)
    /\ IF IsInf(x) \/ IsInf(y)
       THEN (IF IsInf(x) THEN x.n ELSE 0) < (IF IsInf(y) THEN y.n ELSE 0)
       ELSE x.n * y.d < y.n * x.d

F64Le(x, y) == F64Lt(x, y) \/ F64Eq(x, y)

----------------------------------------------------------------------------
(* Lexer.  lx is the Lexer struct without its source: cursor, position and  *)
(* the three delimiter stacks.                                              *)

LexerNew == [cursor |-> 0, position |-> <<0, 0>>,
             paren_stack |-> <<>>, brace_stack |-> <<>>, bracket_stack |-> <<>>]

lexer_display_error(msg, position) == <<Diag("Lexing", msg, position)>>

lexer_reached_end(lx) == Len(source) <= lx.cursor

lexer_peek(lx) == IF lx.cursor < Len(source) THEN source[lx.cursor + 1] ELSE NUL

lexer_advance(lx) ==
    [lx EXCEPT !.position = IF lexer_peek(lx) = LF
                            THEN <<lx.position[1] + 1, 0>>
                            ELSE <<lx.position[1], lx.position[2] + 1>>,
               !.cursor = lx.cursor + 1]

RECURSIVE skip_whitespace(_)
skip_whitespace(lx) ==
    IF ~lexer_reached_end(lx) /\ lexer_peek(lx) \in AsciiWhitespace /\ lexer_peek(lx) # LF
    THEN skip_whitespace(lexer_advance(lx))
    ELSE lx

RECURSIVE skip_line(_)
skip_line(lx) ==
    IF ~lexer_reached_end(lx) /\ lexer_peek(lx) # LF
    THEN skip_line(lexer_advance(lx))
    ELSE lx

\* The result of a collect_* method: the lexer after it, the Option<Token> it
\* returns (some, token) and what it printed.
NoToken == Token("None", <<0, 0>>)
LexSome(lx, token) == [lx |-> lx, some |-> TRUE, token |-> token, err |-> <<>>]
LexNone(lx, err) == [lx |-> lx, some |-> FALSE, token |-> NoToken, err |-> err]

RECURSIVE identifier_loop(_, _)
identifier_loop(lx, lexemme) ==
    IF ~lexer_reached_end(lx)
       /\ (lexer_peek(lx) \in Alphabetic \/ lexer_peek(lx) \in Digit \/ lexer_peek(lx) = "_")
    THEN identifier_loop(lexer_advance(lx), Append(lexemme, lexer_peek(lx)))
    ELSE [lx |-> lx, lexemme |-> lexemme]

collect_identifier(lx) ==
    LET r == identifier_loop(lx, <<>>)
        start_pos == lx.position
    IN  IF \E i \in DOMAIN KEYWORDS : KEYWORDS[i].name = r.lexemme
        THEN LET k == KEYWORDS[CHOOSE i \in DOMAIN KEYWORDS : KEYWORDS[i].name = r.lexemme]
             IN  LexSome(r.lx, [kind |-> k.kind, lit |-> k.lit, position |-> start_pos])
        ELSE LexSome(r.lx, LiteralToken(Identifier(r.lexemme), start_pos))

RECURSIVE number_loop(_, _, _)
number_loop(lx, lexemme, has_period) ==
    IF ~lexer_reached_end(lx)
       /\ (lexer_peek(lx) \in Digit \/ (lexer_peek(lx) = "." /\ ~has_period))
    THEN number_loop(lexer_advance(lx), Append(lexemme, lexer_peek(lx)),
                     has_period \/ lexer_peek(lx) = ".")
    ELSE [lx |-> lx, lexemme |-> lexemme]

\* str::parse::<f64> on a lexemme the loop above builds (digits, at most one
\* '.', a digit first): the decimal value.  parse accepts every such lexemme.
RECURSIVE DecimalValue(_, _, _)
DecimalValue(lexemme, acc, scale) ==
    \* acc: the digits read so far; scale: 10^(digits after the '.'), 0 before it
    IF lexemme = <<>> THEN Ratio(acc, IF scale = 0 THEN 1 ELSE scale)
    ELSE IF Head(lexemme) = "."
         THEN DecimalValue(Tail(lexemme), acc, 1)
         ELSE DecimalValue(Tail(lexemme), 10 * acc + DigitValue(Head(lexemme)), 10 * scale)

ParseF64(lexemme) == DecimalValue(lexemme, 0, 0)

\* the Err arm of parse prints "Failed to parse number" and returns None
ParseFails(lexemme) == \A i \in 1..Len(lexemme) : lexemme[i] \notin Digit

collect_number(lx) ==
    LET r == number_loop(lx, <<>>, FALSE)
        start_pos == lx.position
    IN  IF ParseFails(r.lexemme)
        THEN LexNone(r.lx, lexer_display_error("FailedToParseNumber", start_pos))
        ELSE LexSome(r.lx, LiteralToken(Number(ParseF64(r.lexemme)), start_pos))

Escapes == {BACKSLASH, LF, QUOTE, "n", "r", "t", "0"}

Unescape(c) ==
    CASE c = BACKSLASH -> BACKSLASH
      [] c = LF -> LF
      [] c = QUOTE -> QUOTE
      [] c = "n" -> LF
      [] c = "r" -> CR
      [] c = "t" -> TAB
      [] c = "0" -> NUL

RECURSIVE string_loop(_, _, _, _, _)
string_loop(lx, start_pos, lexemme, escaped, esc_pos) ==
    IF ~lexer_reached_end(lx) /\ lexer_peek(lx) # QUOTE
    THEN LET curr_pos == lx.position
             c == lexer_peek(lx)
             lx1 == lexer_advance(lx)
         IN  IF escaped
             THEN IF c \in Escapes
                  THEN string_loop(lx1, start_pos, Append(lexemme, Unescape(c)), FALSE, esc_pos)
                  ELSE LexNone(lx1, lexer_display_error("UnrecognizedEscapeSequence", esc_pos))
             ELSE IF c = BACKSLASH
                  THEN string_loop(lx1, start_pos, lexemme, TRUE, curr_pos)
                  ELSE IF c = LF
                       THEN LexNone(lx1, lexer_display_error("NewlineInString", curr_pos))
                       ELSE string_loop(lx1, start_pos, Append(lexemme, c), FALSE, esc_pos)
    ELSE IF lexer_reached_end(lx)
         THEN LexNone(lx, lexer_display_error("NoClosingDoubleQuote", start_pos))
         ELSE LexSome(lexer_advance(lx), LiteralToken(String(lexemme), start_pos))

collect_string(lx) ==
    LET start_pos == lx.position
    IN  string_loop(lexer_advance(lx), start_pos, <<>>, FALSE, start_pos)

Pop(stack) == SubSeq(stack, 1, Len(stack) - 1)

TwoChar(lx1, start_pos, double, single) ==
    IF lexer_peek(lx1) = "="
    THEN LexSome(lexer_advance(lx1), Token(double, start_pos))
    ELSE LexSome(lx1, Token(single, start_pos))

\* an opening delimiter: push its position on the stack of its kind
open_delimiter(lx1, stack, kind, start_pos) ==
    LexSome([lx1 EXCEPT ![stack] = Append(@, start_pos)], Token(kind, start_pos))

\* close_delimiter with the position read after the delimiter was consumed
close_delimiter_late_position(lx1, stack, kind, msg, start_pos) ==
    IF lx1[stack] # <<>>
    THEN LexSome([lx1 EXCEPT ![stack] = Pop(@)], Token(kind, lx1.position))
    ELSE LexNone(lx1, lexer_display_error(msg, lx1.position))

\* a closing delimiter: pop the stack of its kind, or report it unmatched
close_delimiter(lx1, stack, kind, msg, start_pos) ==
    IF lx1[stack] # <<>>
    THEN LexSome([lx1 EXCEPT ![stack] = Pop(@)], Token(kind, start_pos))
    ELSE LexNone(lx1, lexer_display_error(msg, start_pos))

collect_symbol(lx) ==
    LET start_pos == lx.position
        c == lexer_peek(lx)
        lx1 == lexer_advance(lx)
    IN  CASE c = "(" -> open_delimiter(lx1, "paren_stack", "LeftParen", start_pos)
          [] c = ")" -> close_delimiter(lx1, "paren_stack", "RightParen",
                                        "UnmatchedRightParen", start_pos)
          [] c = "{" -> open_delimiter(lx1, "brace_stack", "LeftBrace", start_pos)
          [] c = "}" -> close_delimiter(lx1, "brace_stack", "RightBrace",
                                        "UnmatchedRightBrace", start_pos)
          [] c = "[" -> open_delimiter(lx1, "bracket_stack", "LeftBracket", start_pos)
          [] c = "]" -> close_delimiter(lx1, "bracket_stack", "RightBracket",
                                        "UnmatchedRightBracket", start_pos)
          [] c = "+" -> LexSome(lx1, Token("Plus", start_pos))
          [] c = "-" -> LexSome(lx1, Token("Minus", start_pos))
          [] c = "*" -> LexSome(lx1, Token("Star", start_pos))
          [] c = "/" -> LexSome(lx1, Token("Slash", start_pos))
          [] c = "%" -> LexSome(lx1, Token("Percent", start_pos))
          [] c = "=" -> TwoChar(lx1, start_pos, "EqualEqual", "Equal")
          [] c = "!" -> TwoChar(lx1, start_pos, "BangEqual", "Bang")
          [] c = "<" -> TwoChar(lx1, start_pos, "LessEqual", "Less")
          [] c = ">" -> TwoChar(lx1, start_pos, "GreaterEqual", "Greater")
          [] c = NUL -> LexSome(lx1, Token("Eof", start_pos))
          [] OTHER -> LexNone(lx1, lexer_display_error("UnrecognizedSymbol", start_pos))

\* The kinds after which a '\n' is significant.
NewlineAfter == {"RightParen", "RightBracket", "Literal", "Break", "Continue"}

\* collect_newline with RightBrace among the kinds that keep the newline
collect_newline_after_brace(lx, toks) ==
    LET start_pos == lx.position
        lx1 == lexer_advance(lx)
    IN  IF toks # <<>> /\ toks[Len(toks)].kind \in NewlineAfter \cup {"RightBrace"}
        THEN LexSome(lx1, Token("Newline", start_pos))
        ELSE LexNone(lx1, <<>>)

\* prev_token is tokens.last(): the sequence of tokens collected so far stands
\* for the Option (empty = None).
collect_newline(lx, toks) ==
    LET start_pos == lx.position
        lx1 == lexer_advance(lx)
    IN  IF toks # <<>> /\ toks[Len(toks)].kind \in NewlineAfter
        THEN LexSome(lx1, Token("Newline", start_pos))
        ELSE LexNone(lx1, <<>>)

\* The head of an iteration of collect_tokens' loop: skip whitespace, then a
\* comment line and the whitespace after it.
SkipToToken(lx) ==
    LET lx1 == skip_whitespace(lx)
    IN  IF lexer_peek(lx1) = "#" THEN skip_whitespace(skip_line(lx1)) ELSE lx1

\* CollectByType with the refused newline falling through to the error arm
CollectByType_no_continue(lx, toks) ==
    LET c == lexer_peek(lx)
        r == CASE c \in Alphabetic -> collect_identifier(lx)
               [] c \in Digit -> collect_number(lx)
               [] c = QUOTE -> collect_string(lx)
               [] c = LF -> collect_newline(lx, toks)
               [] OTHER -> collect_symbol(lx)
    IN  [lx |-> r.lx, some |-> r.some, token |-> r.token, err |-> r.err,
         skipped |-> FALSE]

\* The match on the character under the cursor.  skipped: the '\n' arm took
\* `continue`, which is no error.
CollectByType(lx, toks) ==
    LET c == lexer_peek(lx)
        r == CASE c \in Alphabetic -> collect_identifier(lx)
               [] c \in Digit -> collect_number(lx)
               [] c = QUOTE -> collect_string(lx)
               [] c = LF -> collect_newline(lx, toks)
               [] OTHER -> collect_symbol(lx)
    IN  [lx |-> r.lx, some |-> r.some, token |-> r.token, err |-> r.err,
         skipped |-> (c = LF /\ ~r.some)]

\* One iteration of the while loop of collect_tokens, from the lexer lx with
\* the tokens toks collected so far.
LexIteration(lx, toks) == CollectByType(SkipToToken(lx), toks)

\* UnmatchedLeft without the loop over the brace stack
UnmatchedLeft_no_brace(lx) ==
    [i \in 1..Len(lx.paren_stack) |-> Diag("Lexing", "UnmatchedLeftParen", lx.paren_stack[i])]
    \o [i \in 1..Len(lx.bracket_stack) |->
            Diag("Lexing", "UnmatchedLeftBracket", lx.bracket_stack[i])]

\* The reports of the post-scan check, stack by stack.
UnmatchedLeft(lx) ==
    [i \in 1..Len(lx.paren_stack) |-> Diag("Lexing", "UnmatchedLeftParen", lx.paren_stack[i])]
    \o [i \in 1..Len(lx.brace_stack) |-> Diag("Lexing", "UnmatchedLeftBrace", lx.brace_stack[i])]
    \o [i \in 1..Len(lx.bracket_stack) |->
            Diag("Lexing", "UnmatchedLeftBracket", lx.bracket_stack[i])]

----------------------------------------------------------------------------
(* AST *)

NoExpr == [e |-> "None"]
ExprLiteral(l) == [e |-> "Literal", lit |-> l]
ExprUnary(op, operand) == [e |-> "Unary", op |-> op, operand |-> operand]
ExprBinary(l, op, r) == [e |-> "Binary", l |-> l, op |-> op, r |-> r]
ExprGrouping(open, inner, close) ==
    [e |-> "Grouping", open |-> open, inner |-> inner, close |-> close]

\* Statement::Print(expr) and Statement::Expr(expr): form is "Print" or "Expr"
Statement(form, expr) == [s |-> form, expr |-> expr]

----------------------------------------------------------------------------
(* Parser.  p is the Parser struct: tokens and cursor.  A parse method       *)
(* yields st = "Some" (with val), "None", or "Panic" when it indexes tokens *)
(* out of bounds; err is what it printed.                                   *)

ParserNew(toks) == [tokens |-> toks, cursor |-> 0]

PSome(p, val, err) == [st |-> "Some", p |-> p, val |-> val, err |-> err]
PNone(p, err) == [st |-> "None", p |-> p, val |-> NoExpr, err |-> err]
PPanic(p, err) == [st |-> "Panic", p |-> p, val |-> NoExpr, err |-> err]

parser_display_error(msg, position) == <<Diag("Parsing", msg, position)>>

\* tokens[cursor] is defined
InBounds(p) == p.cursor < Len(p.tokens)

\* self.cursor >= self.tokens.len() - 1, for a non-empty tokens (on an empty
\* one the usize subtraction underflows: see ParseEmpty)
parser_reached_end(p) == p.cursor >= Len(p.tokens) - 1

parser_peek(p) == p.tokens[p.cursor + 1]

parser_advance(p) == [p EXCEPT !.cursor = p.cursor + 1]

is_match(p, kind) == parser_peek(p).kind = kind

consume(p, kind) ==
    IF ~InBounds(p) THEN PPanic(p, <<>>)
    ELSE IF is_match(p, kind)
         THEN PSome(parser_advance(p), parser_peek(p), <<>>)
         ELSE PNone(p, parser_display_error("ExpectedToken", parser_peek(p).position))

Closers == {"LeftParen", "LeftBrace", "LeftBracket"}

Complement(kind) ==
    CASE kind = "LeftParen" -> "RightParen"
      [] kind = "LeftBrace" -> "RightBrace"
      [] kind = "LeftBracket" -> "RightBracket"

expect_closing(p, kind) ==
    IF ~InBounds(p) THEN PPanic(p, <<>>)
    ELSE LET tok == parser_peek(p)
             p1 == parser_advance(p)
         IN  IF kind \notin Closers
             THEN PNone(p1, parser_display_error("NoComplementaryType", tok.position))
             ELSE IF tok.kind # Complement(kind)
                  THEN PNone(p1, parser_display_error("ExpectedClosing", tok.position))
                  ELSE PSome(p1, tok, <<>>)

synchronize(p) ==
    LET p1 == IF ~parser_reached_end(p) THEN parser_advance(p) ELSE p
        F[n \in 0..Len(p.tokens)] ==
            \* the while loop from cursor n
            LET q == [p1 EXCEPT !.cursor = n]
            IN  IF ~parser_reached_end(q)
                THEN CASE parser_peek(q).kind = "Newline" -> parser_advance(q)
                       [] parser_peek(q).kind \in {"If", "Func", "Let", "Loop", "Eof"} -> q
                       [] OTHER -> F[n + 1]
                ELSE q
    IN  F[p1.cursor]

\* LevelOps with the term and factor operators in each other's place
LevelOps_term_above_factor ==
    << {"Or"},
       {"And"},
       {"EqualEqual", "BangEqual"},
       {"Less", "LessEqual", "Greater", "GreaterEqual"},
       {"Star", "Slash", "Percent"},
       {"Plus", "Minus"} >>

\* The precedence ladder, lowest level first: the operators each binary
\* level folds over.
LevelOps ==
    << {"Or"},
       {"And"},
       {"EqualEqual", "BangEqual"},
       {"Less", "LessEqual", "Greater", "GreaterEqual"},
       {"Plus", "Minus"},
       {"Star", "Slash", "Percent"} >>

RECURSIVE parse_binary(_, _), binary_loop(_, _, _), parse_unary(_), parse_primary(_),
          parse_expr(_)

\* parse_primary that looks at the token and consumes it only when the token
\* starts a primary expression
parse_primary_peek_on_failure(p) ==
    IF ~InBounds(p) THEN PPanic(p, <<>>)
    ELSE LET tok == parser_peek(p)
             p1 == parser_advance(p)
         IN  CASE tok.kind = "Literal" -> PSome(p1, ExprLiteral(tok.lit), <<>>)
               [] tok.kind \in {"LeftParen", "LeftBrace", "LeftBracket"} ->
                    LET expr == parse_expr(p1)
                    IN  IF expr.st # "Some" THEN expr
                        ELSE LET rhs == expect_closing(expr.p, tok.kind)
                             IN  IF rhs.st # "Some" THEN [rhs EXCEPT !.val = NoExpr]
                                 ELSE PSome(rhs.p, ExprGrouping(tok, expr.val, rhs.val), <<>>)
               [] OTHER -> PNone(p, <<>>)

parse_primary(p) ==
    IF ~InBounds(p) THEN PPanic(p, <<>>)
    ELSE LET tok == parser_peek(p)
             p1 == parser_advance(p)
         IN  CASE tok.kind = "Literal" -> PSome(p1, ExprLiteral(tok.lit), <<>>)
               [] tok.kind \in {"LeftParen", "LeftBrace", "LeftBracket"} ->
                    LET expr == parse_expr(p1)
                    IN  IF expr.st # "Some" THEN expr
                        ELSE LET rhs == expect_closing(expr.p, tok.kind)
                             IN  IF rhs.st # "Some" THEN [rhs EXCEPT !.val = NoExpr]
                                 ELSE PSome(rhs.p, ExprGrouping(tok, expr.val, rhs.val), <<>>)
               [] OTHER -> PNone(p1, <<>>)

parse_unary(p) ==
    IF ~InBounds(p) THEN PPanic(p, <<>>)
    ELSE IF is_match(p, "Bang") \/ is_match(p, "Minus")
         THEN LET op == parser_peek(p)
                  rhs == parse_unary(parser_advance(p))
              IN  IF rhs.st # "Some" THEN rhs
                  ELSE PSome(rhs.p, ExprUnary(op, rhs.val), <<>>)
         ELSE parse_primary(p)

parse_factor(p) == parse_binary(6, p)
parse_term(p) == parse_binary(5, p)
parse_comparison(p) == parse_binary(4, p)
parse_equality(p) == parse_binary(3, p)
parse_and(p) == parse_binary(2, p)
parse_or(p) == parse_binary(1, p)

\* the method a binary level calls for its operands
Operand(level, p) ==
    CASE level = 1 -> parse_and(p)
      [] level = 2 -> parse_equality(p)
      [] level = 3 -> parse_comparison(p)
      [] level = 4 -> parse_term(p)
      [] level = 5 -> parse_factor(p)
      [] level = 6 -> parse_unary(p)

\* the while loop of a binary level: fold left while the lookahead is one of
\* the level's operators
binary_loop(level, p, expr) ==
    IF ~InBounds(p) THEN PPanic(p, <<>>)
    ELSE IF \E kind \in LevelOps[level] : is_match(p, kind)
         THEN LET op == parser_peek(p)
                  rhs == Operand(level, parser_advance(p))
              IN  IF rhs.st # "Some" THEN rhs
                  ELSE binary_loop(level, rhs.p, ExprBinary(expr, op, rhs.val))
         ELSE PSome(p, expr, <<>>)

\* parse_or, parse_and, parse_equality, parse_comparison, parse_term and
\* parse_factor share this body
parse_binary(level, p) ==
    LET expr == Operand(level, p)
    IN  IF expr.st # "Some" THEN expr ELSE binary_loop(level, expr.p, expr.val)

parse_expr(p) == parse_or(p)

\* <expr> Newline, the tail shared by both statement forms
ExprThenNewline(p, form) ==
    LET value == parse_expr(p)
    IN  IF value.st # "Some" THEN value
        ELSE LET nl == consume(value.p, "Newline")
             IN  IF nl.st # "Some" THEN [nl EXCEPT !.val = NoExpr]
                 ELSE PSome(nl.p, Statement(form, value.val), <<>>)

parse_print(p) ==
    LET kw == consume(p, "Print")
    IN  IF kw.st # "Some" THEN [kw EXCEPT !.val = NoExpr]
        ELSE ExprThenNewline(kw.p, "Print")

parse_statement(p) ==
    IF ~InBounds(p) THEN PPanic(p, <<>>)
    ELSE IF parser_peek(p).kind = "Print"
         THEN parse_print(p)
         ELSE ExprThenNewline(p, "Expr")

----------------------------------------------------------------------------
(* Evaluator.  evaluate yields st = "Some" (with val), "None" after a type   *)
(* error, or "Panic" on reaching unreachable!(); err is what it printed.    *)

ESome(val) == [st |-> "Some", val |-> val, err |-> <<>>]
ENone(err) == [st |-> "None", val |-> NoLit, err |-> err]
EPanic == [st |-> "Panic", val |-> NoLit, err |-> <<>>]

\* error::display_general_error("Type", ..): the message names the operator
\* and the types of the operands
TypeError(op, operands) ==
    ENone(<<[cat |-> "Type", msg |-> <<op.kind>> \o operands, position |-> op.position]>>)

Arithmetic == {"Minus", "Star", "Slash", "Percent"}
Ordering == {"Less", "LessEqual", "Greater", "GreaterEqual"}
Equality == {"EqualEqual", "BangEqual"}

ArithmeticValue(kind, x, y) ==
    CASE kind = "Plus" -> F64Add(x, y)
      [] kind = "Minus" -> F64Sub(x, y)
      [] kind = "Star" -> F64Mul(x, y)
      [] kind = "Slash" -> F64Div(x, y)
      [] kind = "Percent" -> F64Rem(x, y)

OrderingValue(kind, x, y) ==
    CASE kind = "Less" -> F64Lt(x, y)
      [] kind = "LessEqual" -> F64Le(x, y)
      [] kind = "Greater" -> F64Lt(y, x)
      [] kind = "GreaterEqual" -> F64Le(y, x)

\* EqualityTypes with nil among the types that compare
EqualityTypes_with_nil == {"Number", "Bool", "String", "Nil"}

\* the types whose values == and != compare: the arms of their matches that
\* return a Bool
EqualityTypes == {"Number", "Bool", "String"}

\* == on two literals of the same type t
SameTypeEqual(t, x, y) == IF t = "Number" THEN F64Eq(x, y) ELSE x = y

\* the match on op.kind of evaluate_binary, on the values of both operands
apply_binary(op, left_lit, right_lit) ==
    LET both(t) == left_lit.t = t /\ right_lit.t = t
        mismatch == TypeError(op, <<left_lit.t, right_lit.t>>)
    IN  CASE op.kind = "Plus" ->
               IF both("Number")
               THEN ESome(Number(F64Add(left_lit.v, right_lit.v)))
               ELSE IF both("String")
                    THEN ESome(String(left_lit.v \o right_lit.v))
                    ELSE mismatch
          [] op.kind \in Arithmetic ->
               IF both("Number")
               THEN ESome(Number(ArithmeticValue(op.kind, left_lit.v, right_lit.v)))
               ELSE mismatch
          [] op.kind \in Ordering ->
               IF both("Number")
               THEN ESome(Bool(OrderingValue(op.kind, left_lit.v, right_lit.v)))
               ELSE mismatch
          [] op.kind \in Equality ->
               IF \E t \in EqualityTypes : both(t)
               THEN ESome(Bool(SameTypeEqual(left_lit.t, left_lit.v, right_lit.v)
                                 = (op.kind = "EqualEqual")))
               ELSE mismatch
          [] OTHER -> EPanic

\* the match on op.kind of evaluate_unary, on the value of the operand
apply_unary(op, lit) ==
    CASE op.kind = "Minus" ->
           IF lit.t = "Number" THEN ESome(Number(F64Neg(lit.v)))
           ELSE TypeError(op, <<lit.t>>)
      [] op.kind = "Bang" ->
           IF lit.t = "Bool" THEN ESome(Bool(~lit.v))
           ELSE TypeError(op, <<lit.t>>)
      [] OTHER -> EPanic

RECURSIVE evaluate(_)

evaluate_literal(expr) == ESome(expr.lit)

evaluate_unary(expr) ==
    LET lit == evaluate(expr.operand)
    IN  IF lit.st # "Some" THEN lit ELSE apply_unary(expr.op, lit.val)

\* evaluate_binary with the right operand evaluated whatever the left one
\* yielded
evaluate_binary_both_operands(expr) ==
    LET left_lit == evaluate(expr.l)
        right_lit == evaluate(expr.r)
    IN  IF left_lit.st = "Panic" \/ right_lit.st = "Panic" THEN EPanic
        ELSE IF left_lit.st # "Some" \/ right_lit.st # "Some"
             THEN ENone(left_lit.err \o right_lit.err)
             ELSE apply_binary(expr.op, left_lit.val, right_lit.val)

\* evaluate_binary with the right operand evaluated before the left one
evaluate_binary_right_first(expr) ==
    LET right_lit == evaluate(expr.r)
    IN  IF right_lit.st # "Some" THEN right_lit
        ELSE LET left_lit == evaluate(expr.l)
             IN  IF left_lit.st # "Some" THEN left_lit
                 ELSE apply_binary(expr.op, left_lit.val, right_lit.val)

evaluate_binary(expr) ==
    LET left_lit == evaluate(expr.l)
    IN  IF left_lit.st # "Some" THEN left_lit
        ELSE LET right_lit == evaluate(expr.r)
             IN  IF right_lit.st # "Some" THEN right_lit
                 ELSE apply_binary(expr.op, left_lit.val, right_lit.val)

evaluate_grouping(expr) == evaluate(expr.inner)

evaluate(expr) ==
    CASE expr.e = "Literal" -> evaluate_literal(expr)
      [] expr.e = "Unary" -> evaluate_unary(expr)
      [] expr.e = "Binary" -> evaluate_binary(expr)
      [] expr.e = "Grouping" -> evaluate_grouping(expr)

\* impl Display for Literal: the text of an identifier or a string, the value
\* of a number, the name of a bool or of nil
Display(lit) ==
    CASE lit.t \in {"Identifier", "String"} -> lit.v
      [] lit.t = "Number" -> lit.v
      [] lit.t = "Bool" -> IF lit.v THEN <<"t","r","u","e">> ELSE <<"f","a","l","s","e">>
      [] lit.t = "Nil" -> <<"n","i","l">>

\* interpret with the expression of a statement of either form evaluated
interpret_every_form(stmt) ==
    LET val == evaluate(stmt.expr)
    IN  [st |-> val.st, ok |-> val.st = "Some",
         out |-> IF val.st = "Some" /\ stmt.s = "Print" THEN <<Display(val.val)>> ELSE <<>>,
         err |-> val.err]

\* Statement::interpret: ok = the bool it returns, out = what it prints on
\* stdout.  The parser builds no VarDecl.
interpret(stmt) ==
    IF stmt.s = "Print"
    THEN LET val == evaluate(stmt.expr)
         IN  [st |-> val.st, ok |-> val.st = "Some",
              out |-> IF val.st = "Some" THEN <<Display(val.val)>> ELSE <<>>,
              err |-> val.err]
    ELSE [st |-> "Some", ok |-> TRUE, out |-> <<>>, err |-> <<>>]

----------------------------------------------------------------------------
(* Inputs *)

MaxFrags == 3
MaxStrLen == 5
MaxLines == 3
MaxWords == 4

RECURSIVE Flatten(_)
Flatten(ss) == IF ss = <<>> THEN <<>> ELSE Head(ss) \o Flatten(Tail(ss))

SeqsUpTo(S, n) == UNION {[1..k -> S] : k \in 0..n}

\* lexemes and characters a source is put together from
Frags ==
    { <<"1">>, <<"a">>, <<" ">>, <<LF>>, <<"#">>, <<QUOTE>>, <<"+">>, <<"=">>, <<"!">>,
      <<"(">>, <<")">>, <<"[">>, <<"]">>, <<"{">>, <<"}">>, <<"$">>,
      <<"b","r","e","a","k">>, <<"c","o","n","t","i","n","u","e">>,
      <<"p","r","i","n","t">> }

FragSources == {Flatten(ss) : ss \in SeqsUpTo(Frags, MaxFrags)}

\* a string literal: the opening quote and what follows it
StrChars == {"a", "n", BACKSLASH, QUOTE, LF}

StrSources == {<<QUOTE>> \o body : body \in SeqsUpTo(StrChars, MaxStrLen)}

\* programs: lines, each a statement body and its '\n', then nothing or a
\* trailing space
GoodBodies ==
    { <<"1">>,
      <<"p","r","i","n","t"," ","1">>,
      <<"(","2",")">> }

BadBodies ==
    { <<"1"," ","2">>,
      <<"(","[","1",")","]">>,
      <<"*"," ","2">>,
      <<"b","r","e","a","k">> }

Line(body) == body \o <<LF>>

Lines == {Line(body) : body \in GoodBodies \cup BadBodies}

Programs == {Flatten(ls) \o tail : ls \in SeqsUpTo(Lines, MaxLines), tail \in {<<>>, <<" ">>}}

\* print a op1 b op2 c
BinaryLexemes ==
    { <<"o","r">>, <<"a","n","d">>, <<"=","=">>, <<"!","=">>, <<"<">>, <<"<","=">>,
      <<">">>, <<">","=">>, <<"+">>, <<"-">>, <<"*">>, <<"/">>, <<"%">> }

PrintBinary(a, op1, b, op2, c) ==
    <<"p","r","i","n","t"," ">> \o a \o <<" ">> \o op1 \o <<" ">> \o b
        \o <<" ">> \o op2 \o <<" ">> \o c \o <<LF>>

Numerals == { <<"2">>, <<"3">>, <<"4">>, <<"1","0">> }

OperandTriples ==
    { << <<"2">>, <<"3">>, <<"4">> >>,
      << <<"1","0">>, <<"2">>, <<"3">> >>,
      << <<"-","3">>, <<"!","2">>, <<"-","-","4">> >> }

ExprSources ==
    {PrintBinary(t[1], op1, t[2], op2, t[3]) :
        t \in OperandTriples, op1 \in BinaryLexemes, op2 \in BinaryLexemes}
    \cup {PrintBinary(a, op1, b, op2, c) :
            a \in Numerals, b \in Numerals, c \in Numerals,
            op1 \in {<<"+">>, <<"-">>, <<"*">>}, op2 \in {<<"+">>, <<"-">>, <<"*">>}}

\* operands of every type: literals, then a prefix operator or a pair of
\* parentheses around some of them
Atoms ==
    { <<"1">>, <<"2">>, <<QUOTE,"a",QUOTE>>, <<QUOTE,"b",QUOTE>>,
      <<"t","r","u","e">>, <<"f","a","l","s","e">>, <<"n","i","l">>, <<"x">> }

SmallAtoms == { <<"1">>, <<QUOTE,"a",QUOTE>>, <<"t","r","u","e">> }

EvalOperands ==
    Atoms
    \cup {<<"-">> \o a : a \in SmallAtoms}
    \cup {<<"!">> \o a : a \in SmallAtoms}
    \cup {<<"(">> \o a \o <<")">> : a \in {<<"1">>, <<QUOTE,"a",QUOTE>>}}

\* the binary operators the evaluator defines
EvalLexemes == BinaryLexemes \ { <<"o","r">>, <<"a","n","d">> }

Binary(a, op, b) == a \o <<" ">> \o op \o <<" ">> \o b

PrintLine(e) == <<"p","r","i","n","t"," ">> \o e \o <<LF>>

\* print a op b
PairSources ==
    {PrintLine(Binary(a, op, b)) : a \in EvalOperands, b \in EvalOperands, op \in EvalLexemes}

\* print l op r, where l and r are operands or binary expressions in
\* parentheses
Compounds ==
    SmallAtoms
    \cup {<<"(">> \o Binary(a, op, b) \o <<")">> :
            a \in {<<"1">>, <<QUOTE,"a",QUOTE>>}, b \in {<<"1">>, <<QUOTE,"a",QUOTE>>},
            op \in {<<"+">>, <<"-">>, <<"=","=">>}}

NestedSources ==
    {PrintLine(Binary(l, op, r)) :
        l \in Compounds, r \in Compounds, op \in {<<"+">>, <<"<">>, <<"!","=">>}}

\* programs of statements that run: some print, some do not, some have a type
\* error, some use and / or
RunBodies ==
    { <<"p","r","i","n","t"," ","1">>,
      <<"2">>,
      <<"-",QUOTE,"a",QUOTE>>,
      <<"p","r","i","n","t"," ","-",QUOTE,"a",QUOTE>>,
      <<"p","r","i","n","t"," ","1"," ","a","n","d"," ","2">>,
      <<"1"," ","o","r"," ","2">>,
      <<"p","r","i","n","t"," ","-",QUOTE,"a",QUOTE," ","o","r"," ","1">>,
      <<"p","r","i","n","t"," ","1"," ","a","n","d"," ","!","2">> }

RunPrograms == {Flatten(ls) : ls \in SeqsUpTo({Line(body) : body \in RunBodies}, MaxLines)}

\* token by token: statements that fail in front of a keyword, a '\n' or the
\* end of the text
Words ==
    { <<"1"," ">>, <<"*"," ">>, <<"("," ","1"," ",")"," ">>, <<"b","r","e","a","k"," ">>,
      <<"l","e","t"," ">>, <<"l","o","o","p"," ">>, <<LF>> }

WordSources == {Flatten(ws) : ws \in SeqsUpTo(Words, MaxWords)}

Sources ==
    FragSources \cup StrSources \cup Programs \cup ExprSources
    \cup PairSources \cup NestedSources \cup RunPrograms \cup WordSources

----------------------------------------------------------------------------
(* main *)

Init ==
    /\ source \in Sources
    /\ pc = "lex"
    /\ lexer = LexerNew
    /\ tokens = <<>>
    /\ contains_error = FALSE
    /\ lex_result = "Pending"
    /\ parser = ParserNew(<<>>)
    /\ statements = <<>>
    /\ parse_error = FALSE
    /\ parse_result = "Pending"
    /\ next_stmt = 1
    /\ stderr = <<>>
    /\ stdout = <<>>

\* collect_tokens: one iteration of its while loop
LexToken ==
    /\ pc = "lex"
    /\ ~lexer_reached_end(lexer)
    /\ LET r == LexIteration(lexer, tokens)
       IN  /\ lexer' = r.lx
           /\ tokens' = IF r.some THEN Append(tokens, r.token) ELSE tokens
           /\ contains_error' = (contains_error \/ (~r.some /\ ~r.skipped))
           /\ stderr' = stderr \o r.err
    /\ UNCHANGED <<source, pc, lex_result, parser, statements, parse_error, parse_result,
                   next_stmt, stdout>>

\* collect_tokens: the check for unmatched brackets and the return; main hands
\* the tokens to Parser::new or returns
LexFinish ==
    /\ pc = "lex"
    /\ lexer_reached_end(lexer)
    /\ LET err == UnmatchedLeft(lexer)
           failed == contains_error \/ err # <<>>
       IN  /\ stderr' = stderr \o err
           /\ contains_error' = failed
           /\ lex_result' = IF failed THEN "None" ELSE "Some"
           /\ pc' = IF failed THEN "exit" ELSE "parse"
           /\ parser' = IF failed THEN parser ELSE ParserNew(tokens)
    /\ UNCHANGED <<source, lexer, tokens, statements, parse_error, parse_result,
                   next_stmt, stdout>>

\* collect_statements on no token at all: reached_end subtracts 1 from a usize
\* 0, which panics (or wraps, and the peek that follows panics)
ParseEmpty ==
    /\ pc = "parse"
    /\ parser.tokens = <<>>
    /\ pc' = "panic"
    /\ UNCHANGED <<source, lexer, tokens, contains_error, lex_result, parser, statements,
                   parse_error, parse_result, next_stmt, stderr, stdout>>

\* collect_statements: one iteration of its while loop, up to the match
ParseStatement ==
    /\ pc = "parse"
    /\ parser.tokens # <<>>
    /\ ~parser_reached_end(parser)
    /\ LET r == parse_statement(parser)
       IN  /\ parser' = r.p
           /\ stderr' = stderr \o r.err
           /\ statements' = IF r.st = "Some" THEN Append(statements, r.val) ELSE statements
           /\ parse_error' = (parse_error \/ r.st = "None")
           /\ pc' = CASE r.st = "Some" -> "parse"
                      [] r.st = "None" -> "sync"
                      [] r.st = "Panic" -> "panic"
    /\ UNCHANGED <<source, lexer, tokens, contains_error, lex_result, parse_result,
                   next_stmt, stdout>>

\* collect_statements: the None arm's call of synchronize
Synchronize ==
    /\ pc = "sync"
    /\ parser' = synchronize(parser)
    /\ pc' = "parse"
    /\ UNCHANGED <<source, lexer, tokens, contains_error, lex_result, statements,
                   parse_error, parse_result, next_stmt, stderr, stdout>>

\* collect_statements: the return; main starts on the statements or returns
ParseFinish ==
    /\ pc = "parse"
    /\ parser.tokens # <<>>
    /\ parser_reached_end(parser)
    /\ parse_result' = IF parse_error THEN "None" ELSE "Some"
    /\ pc' = IF parse_error THEN "exit" ELSE "run"
    /\ UNCHANGED <<source, lexer, tokens, contains_error, lex_result, parser, statements,
                   parse_error, next_stmt, stderr, stdout>>

\* main: one iteration of its for loop over the statements
Interpret ==
    /\ pc = "run"
    /\ next_stmt <= Len(statements)
    /\ LET r == interpret(statements[next_stmt])
       IN  /\ stdout' = stdout \o r.out
           /\ stderr' = stderr \o r.err
           /\ pc' = CASE r.st = "Panic" -> "panic"
                      [] r.st = "None" -> "exit"
                      [] r.st = "Some" -> "run"
           /\ next_stmt' = IF r.ok THEN next_stmt + 1 ELSE next_stmt
    /\ UNCHANGED <<source, lexer, tokens, contains_error, lex_result, parser, statements,
                   parse_error, parse_result>>

\* main: the end of its for loop
MainReturn ==
    /\ pc = "run"
    /\ next_stmt > Len(statements)
    /\ pc' = "exit"
    /\ UNCHANGED <<source, lexer, tokens, contains_error, lex_result, parser, statements,
                   parse_error, parse_result, next_stmt, stderr, stdout>>

Next ==
    \/ LexToken
    \/ LexFinish
    \/ ParseEmpty
    \/ ParseStatement
    \/ Synchronize
    \/ ParseFinish
    \/ Interpret
    \/ MainReturn

Spec == Init /\ [][Next]_vars

----------------------------------------------------------------------------
(* Vocabulary of the properties *)

Last(seq) == seq[Len(seq)]
Front(seq) == SubSeq(seq, 1, Len(seq) - 1)
Count(seq, Test(_)) == Cardinality({i \in 1..Len(seq) : Test(seq[i])})

\* the character collect_tokens is about to match, its index in the source
\* (0-based) and the lexer's position there
MainLoopChar == lexer_peek(SkipToToken(lexer))
MainLoopCursor == SkipToToken(lexer).cursor
MainLoopPosition == SkipToToken(lexer).position
AtMainLoop == pc = "lex" /\ ~lexer_reached_end(lexer)

\* the <<line, column>> of the character at index k (0-based), read off the text
PositionAt(k) ==
    LET breaks == {i \in 1..k : source[i] = LF}
        last == IF breaks = {} THEN 0 ELSE CHOOSE i \in breaks : \A j \in breaks : j <= i
    IN  <<Cardinality(breaks), k - last>>

IsLexing(d) == d.cat = "Lexing"
IsParsing(d) == d.cat = "Parsing"
UnmatchedRight == {"UnmatchedRightParen", "UnmatchedRightBrace", "UnmatchedRightBracket"}
UnmatchedLeftMsgs == {"UnmatchedLeftParen", "UnmatchedLeftBrace", "UnmatchedLeftBracket"}
IsUnmatchedLeft(d) == d.cat = "Lexing" /\ d.msg \in UnmatchedLeftMsgs
IsDelimiterDiag(d) == d.cat = "Lexing" /\ d.msg \in UnmatchedRight \cup UnmatchedLeftMsgs

Stacks == {"paren_stack", "brace_stack", "bracket_stack"}
Delimiters ==
    { [open |-> "(", close |-> ")", stack |-> "paren_stack", left |-> "LeftParen",
       right |-> "RightParen", unmatched_right |-> "UnmatchedRightParen",
       unmatched_left |-> "UnmatchedLeftParen"],
      [open |-> "{", close |-> "}", stack |-> "brace_stack", left |-> "LeftBrace",
       right |-> "RightBrace", unmatched_right |-> "UnmatchedRightBrace",
       unmatched_left |-> "UnmatchedLeftBrace"],
      [open |-> "[", close |-> "]", stack |-> "bracket_stack", left |-> "LeftBracket",
       right |-> "RightBracket", unmatched_right |-> "UnmatchedRightBracket",
       unmatched_left |-> "UnmatchedLeftBracket"] }
DelimiterOf(c) == CHOOSE d \in Delimiters : c \in {d.open, d.close}
Openers == {d.open : d \in Delimiters}
Closings == {d.close : d \in Delimiters}

\* a text with no string and no comment in it: every delimiter character of
\* it is a delimiter
DelimiterText(text) == \A i \in 1..Len(text) : text[i] \notin {QUOTE, "#"}

RECURSIVE Nested(_, _)
Nested(text, open) ==
    \* open: the openers not yet closed, innermost last
    IF text = <<>> THEN open = <<>>
    ELSE IF Head(text) \in Openers THEN Nested(Tail(text), Append(open, Head(text)))
    ELSE IF Head(text) \in Closings
         THEN /\ open # <<>>
              /\ DelimiterOf(Last(open)).close = Head(text)
              /\ Nested(Tail(text), Front(open))
         ELSE Nested(Tail(text), open)

BalancedText(text) == DelimiterText(text) /\ Nested(text, <<>>)

Without(text, i) == SubSeq(text, 1, i - 1) \o SubSeq(text, i + 1, Len(text))

----------------------------------------------------------------------------
(* Properties *)

\* C1: a '\n' reached by the main loop of collect_tokens adds a Newline token
\* (at its position) exactly when the last token collected is a RightParen,
\* a RightBracket, a Literal, a Break or a Continue; otherwise it adds no
\* token and no error, whatever the delimiter stacks hold.
C1_SignificantNewline ==
    [][ (AtMainLoop /\ MainLoopChar = LF) =>
          /\ IF tokens # <<>>
                /\ Last(tokens).kind \in
                     {"RightParen", "RightBracket", "Literal", "Break", "Continue"}
             THEN tokens' = Append(tokens, Token("Newline", MainLoopPosition))
             ELSE tokens' = tokens
          /\ stderr' = stderr
          /\ contains_error' = contains_error ]_vars

\* a Newline token collected while a parenthesis and a brace are open
C1_Witness ==
    /\ tokens # <<>>
    /\ Last(tokens).kind = "Newline"
    /\ lexer.paren_stack # <<>>

\* C2: the tokens of a successful lex end with an Eof token.
C2_EndsWithEof ==
    lex_result = "Some" => (tokens # <<>> /\ Last(tokens).kind = "Eof")

\* the tokens of a successful parse, less the final Eof
StatementTokens ==
    IF parser.tokens # <<>> /\ Last(parser.tokens).kind = "Eof"
    THEN Front(parser.tokens)
    ELSE parser.tokens

\* C3: collect_statements never returns success on tokens whose last statement
\* has no Newline after it: when it succeeds, the tokens before the Eof are
\* empty or end with a Newline.
C3_UnterminatedRejected ==
    parse_result = "Some" =>
        (StatementTokens = <<>> \/ Last(StatementTokens).kind = "Newline")

\* a program of three lines of which only the second is malformed
SecondMalformed ==
    \E g1 \in GoodBodies, b \in BadBodies, g3 \in GoodBodies, tail \in {<<>>, <<" ">>} :
        source = Line(g1) \o Line(b) \o Line(g3) \o tail

\* C4: on a program of three statements of which only the second is malformed,
\* parsing prints exactly one diagnostic, fails, and parses statements 1 and 3.
C4_OneDiagnosticAndRecovery ==
    (SecondMalformed /\ pc \in {"run", "exit", "panic"}) =>
        /\ Count(stderr, IsParsing) = 1
        /\ parse_result = "None"
        /\ Len(statements) = 2

\* C5: a call of parse_statement that returns None has printed exactly one
\* diagnostic, and one that returns Some has printed none.
C5_OneDiagnosticPerFailure ==
    [][ /\ (pc = "parse" /\ pc' = "sync") => Len(stderr') = Len(stderr) + 1
        /\ (pc = "parse" /\ Len(statements') > Len(statements)) => stderr' = stderr ]_vars

RECURSIVE EscapedBody(_)
EscapedBody(body) ==
    \* every '\' of body starts a recognised escape, and body holds no other
    \* quote or newline
    IF body = <<>> THEN TRUE
    ELSE IF Head(body) = BACKSLASH
         THEN Len(body) >= 2 /\ body[2] \in Escapes /\ EscapedBody(Tail(Tail(body)))
         ELSE Head(body) \notin {QUOTE, LF} /\ EscapedBody(Tail(body))

RECURSIVE StringValue(_)
StringValue(body) ==
    IF body = <<>> THEN <<>>
    ELSE IF Head(body) = BACKSLASH
         THEN <<Unescape(body[2])>> \o StringValue(Tail(Tail(body)))
         ELSE <<Head(body)>> \o StringValue(Tail(body))

\* the source is one string literal whose escapes are all recognised
OneLiteral ==
    /\ Len(source) >= 2
    /\ source[1] = QUOTE
    /\ Last(source) = QUOTE
    /\ EscapedBody(SubSeq(source, 2, Len(source) - 1))

\* C6: a string literal whose escapes are all recognised, \" among them, lexes
\* to the one String token holding the escaped characters.
C6_EscapesContinueLiteral ==
    (OneLiteral /\ pc # "lex") =>
        /\ lex_result = "Some"
        /\ Len(tokens) = 1
        /\ tokens[1].kind = "Literal"
        /\ tokens[1].lit.t = "String"
        /\ tokens[1].lit.v = StringValue(SubSeq(source, 2, Len(source) - 1))

\* an otherwise balanced text with one ')' too many
OneExtraRightParen ==
    /\ DelimiterText(source)
    /\ \E i \in 1..Len(source) : source[i] = ")" /\ Nested(Without(source, i), <<>>)

\* C7: a closing delimiter met while the stack of its kind is empty prints one
\* unmatched-closing error at its position, adds no token and changes no stack;
\* met while that stack is not empty, it pops one position from that stack
\* alone and adds its token without any error.  So a balanced text with one
\* extra ')' gets exactly one delimiter diagnostic.
C7_ClosingDelimiter ==
    /\ [][ (AtMainLoop /\ MainLoopChar \in Closings) =>
             LET d == DelimiterOf(MainLoopChar)
                 at == PositionAt(MainLoopCursor)
             IN  IF lexer[d.stack] = <<>>
                 THEN /\ stderr' = Append(stderr, Diag("Lexing", d.unmatched_right, at))
                      /\ tokens' = tokens
                      /\ \A st \in Stacks : lexer'[st] = lexer[st]
                 ELSE /\ lexer'[d.stack] = Front(lexer[d.stack])
                      /\ \A st \in Stacks \ {d.stack} : lexer'[st] = lexer[st]
                      /\ tokens' = Append(tokens, Token(d.right, at))
                      /\ stderr' = stderr ]_vars
    /\ []((OneExtraRightParen /\ pc # "lex") => Count(stderr, IsDelimiterDiag) = 1)

\* a ')' was reported unmatched although a bracket is still open, and the
\* scan went on
C7_Witness ==
    /\ pc = "lex"
    /\ Count(stderr, IsDelimiterDiag) = 1
    /\ stderr[1].msg = "UnmatchedRightParen"
    /\ lexer.bracket_stack # <<>>
    /\ lexer.paren_stack = <<>>

\* C8: the post-scan check reports every position left on a stack exactly
\* once, as an unmatched opening delimiter at the position of that opener in
\* the text; no such report is made while the scan runs; and a balanced text
\* ends with the three stacks empty and no delimiter diagnostic.
C8_UnmatchedOpeners ==
    /\ [][ (pc = "lex" /\ pc' # "lex") =>
             LET new == SubSeq(stderr', Len(stderr) + 1, Len(stderr'))
             IN  /\ SubSeq(stderr', 1, Len(stderr)) = stderr
                 /\ Len(new) = Len(lexer.paren_stack) + Len(lexer.brace_stack)
                                 + Len(lexer.bracket_stack)
                 /\ \A d \in Delimiters : \A i \in 1..Len(lexer[d.stack]) :
                      /\ Cardinality({j \in 1..Len(new) :
                             new[j] = Diag("Lexing", d.unmatched_left, lexer[d.stack][i])}) = 1
                      /\ \E k \in 0..(Len(source) - 1) :
                             /\ PositionAt(k) = lexer[d.stack][i]
                             /\ source[k + 1] = d.open ]_vars
    /\ [](pc = "lex" => Count(stderr, IsUnmatchedLeft) = 0)
    /\ []((BalancedText(source) /\ pc # "lex") =>
             /\ \A st \in Stacks : lexer[st] = <<>>
             /\ Count(stderr, IsDelimiterDiag) = 0)

\* two openers of different kinds were reported after the scan
C8_Witness ==
    /\ pc # "lex"
    /\ Count(stderr, IsUnmatchedLeft) = 2
    /\ Len(lexer.paren_stack) = 1
    /\ Len(lexer.bracket_stack) = 1

\* C9: the scan goes on after a diagnostic until the cursor is at the end of
\* the text, and collect_tokens returns None exactly when a lexing diagnostic
\* was printed, during the scan or by the post-scan check.
C9_CollectAllErrors ==
    /\ pc = "lex" => (contains_error <=> Count(stderr, IsLexing) >= 1)
    /\ lex_result # "Pending" =>
         /\ lexer.cursor >= Len(source)
         /\ lex_result = "None" <=> Count(stderr, IsLexing) >= 1
         /\ lex_result = "Some" <=> Count(stderr, IsLexing) = 0

\* a failed lex that printed three diagnostics
C9_Witness ==
    /\ lex_result = "None"
    /\ Count(stderr, IsLexing) = 3
    /\ Count(stderr, IsUnmatchedLeft) = 1

\* the level of a binary operator in the ladder the specification states
Prec(kind) ==
    CASE kind = "Or" -> 1
      [] kind = "And" -> 2
      [] kind \in {"EqualEqual", "BangEqual"} -> 3
      [] kind \in {"Less", "LessEqual", "Greater", "GreaterEqual"} -> 4
      [] kind \in {"Plus", "Minus"} -> 5
      [] kind \in {"Star", "Slash", "Percent"} -> 6

\* the operand that starts at token i: prefix operators, then a literal
RECURSIVE OperandFrom(_, _)
OperandFrom(toks, i) ==
    IF toks[i].kind \in {"Minus", "Bang"}
    THEN LET rest == OperandFrom(toks, i + 1)
         IN  [expr |-> ExprUnary(toks[i], rest.expr), next |-> rest.next]
    ELSE [expr |-> ExprLiteral(toks[i].lit), next |-> i + 1]

\* the tree of `print a op1 b op2 c`: op1 binds first unless op2 is higher
LadderTree(toks) ==
    LET a == OperandFrom(toks, 2)
        op1 == toks[a.next]
        b == OperandFrom(toks, a.next + 1)
        op2 == toks[b.next]
        c == OperandFrom(toks, b.next + 1)
    IN  IF Prec(op1.kind) >= Prec(op2.kind)
        THEN ExprBinary(ExprBinary(a.expr, op1, b.expr), op2, c.expr)
        ELSE ExprBinary(a.expr, op1, ExprBinary(b.expr, op2, c.expr))

IntOp(kind, x, y) ==
    CASE kind = "Plus" -> x + y
      [] kind = "Minus" -> x - y
      [] kind = "Star" -> x * y

\* the value of a op1 b op2 c for numerals and + - *, by the same ladder
LadderValue(toks) ==
    LET a == toks[2].lit.v.n
        b == toks[4].lit.v.n
        c == toks[6].lit.v.n
    IN  IF Prec(toks[3].kind) >= Prec(toks[5].kind)
        THEN IntOp(toks[5].kind, IntOp(toks[3].kind, a, b), c)
        ELSE IntOp(toks[3].kind, a, IntOp(toks[5].kind, b, c))

NumeralSources ==
    {PrintBinary(a, op1, b, op2, c) :
        a \in Numerals, b \in Numerals, c \in Numerals,
        op1 \in {<<"+">>, <<"-">>, <<"*">>}, op2 \in {<<"+">>, <<"-">>, <<"*">>}}

\* C10: `print a op1 b op2 c` parses by the ladder or < and < equality <
\* comparison < term < factor < unary, each level folding left; so
\* 2 + 3 * 4 prints 14 and 10 - 2 - 3 prints 5.
C10_PrecedenceLadder ==
    /\ (source \in ExprSources /\ pc \notin {"lex", "parse", "sync"}) =>
         /\ parse_result = "Some"
         /\ statements = <<Statement("Print", LadderTree(tokens))>>
    /\ (source \in NumeralSources /\ pc = "exit") =>
         stdout = <<Num(LadderValue(tokens))>>
    /\ (source = PrintBinary(<<"2">>, <<"+">>, <<"3">>, <<"*">>, <<"4">>) /\ pc = "exit") =>
         stdout = <<Num(14)>>
    /\ (source = PrintBinary(<<"1","0">>, <<"-">>, <<"2">>, <<"-">>, <<"3">>) /\ pc = "exit") =>
         stdout = <<Num(5)>>

\* 10 - 2 - 3 was parsed, run and printed
C10_Witness ==
    /\ source = PrintBinary(<<"1","0">>, <<"-">>, <<"2">>, <<"-">>, <<"3">>)
    /\ pc = "exit"
    /\ stdout # <<>>

----------------------------------------------------------------------------
(* Evaluation *)

True == <<"t","r","u","e">>
False == <<"f","a","l","s","e">>

IsType(d) == d.cat = "Type"

\* main is about to interpret a print statement
AtPrint == pc = "run" /\ next_stmt <= Len(statements) /\ statements[next_stmt].s = "Print"

\* ... the expression of which is l op r, op being == or !=, with l and r
\* both yielding a value
AtEquality ==
    /\ AtPrint
    /\ LET e == statements[next_stmt].expr
       IN  /\ e.e = "Binary"
           /\ e.op.kind \in {"EqualEqual", "BangEqual"}
           /\ evaluate(e.l).st = "Some"
           /\ evaluate(e.r).st = "Some"

\* C11: == and != on two operand values print a bool exactly when the values
\* are two numbers, two bools or two strings; on any other pair they print
\* nothing, report one type error at the operator, and the run ends.
C11_EqualityTypeMismatch ==
    [][AtEquality =>
        LET e == statements[next_stmt].expr
            l == evaluate(e.l).val
            r == evaluate(e.r).val
        IN  IF l.t = r.t /\ l.t \in {"Number", "Bool", "String"}
            THEN /\ \E b \in {True, False} : stdout' = Append(stdout, b)
                 /\ stderr' = stderr
                 /\ pc' = "run"
            ELSE /\ stdout' = stdout
                 /\ \E d \in {Last(stderr')} :
                        /\ stderr' = Append(stderr, d)
                        /\ IsType(d)
                        /\ d.position = e.op.position
                 /\ pc' = "exit"]_vars

\* 1 == "a" was evaluated: a type error on a number and a string
C11_Witness ==
    /\ pc = "exit"
    /\ statements # <<>>
    /\ stdout = <<>>
    /\ \E i \in 1..Len(stderr) :
          IsType(stderr[i]) /\ stderr[i].msg = <<"EqualEqual", "Number", "String">>

\* the binary operators of a tree
RECURSIVE Operators(_)
Operators(expr) ==
    CASE expr.e = "Literal" -> {}
      [] expr.e = "Unary" -> Operators(expr.operand)
      [] expr.e = "Grouping" -> Operators(expr.inner)
      [] expr.e = "Binary" -> {expr.op.kind} \cup Operators(expr.l) \cup Operators(expr.r)

HasAndOr(expr) == Operators(expr) \cap {"And", "Or"} # {}

\* the source is print "a" - 1
StringMinusNumber == source = PrintLine(Binary(<<QUOTE,"a",QUOTE>>, <<"-">>, <<"1">>))

\* C12: evaluating a tree without and / or either yields a value and no
\* diagnostic, or yields None and exactly one Type diagnostic, however many of
\* its sub-expressions are ill-typed; "a" - 1 is of the second kind.
C12_NoneIffOneDiagnostic ==
    [][(AtPrint /\ ~HasAndOr(statements[next_stmt].expr)) =>
        /\ \/ /\ Len(stdout') = Len(stdout) + 1
              /\ stderr' = stderr
              /\ pc' = "run"
           \/ /\ stdout' = stdout
              /\ Len(stderr') = Len(stderr) + 1
              /\ SubSeq(stderr', 1, Len(stderr)) = stderr
              /\ IsType(Last(stderr'))
              /\ pc' = "exit"
        /\ StringMinusNumber => stdout' = stdout /\ Len(stderr') = 1]_vars

\* ("a" - 1) + (1 - "a"), both operands ill-typed, was evaluated
C12_Witness ==
    /\ pc = "exit"
    /\ Len(statements) = 1
    /\ statements[1].s = "Print"
    /\ LET e == statements[1].expr
       IN  /\ e.e = "Binary"
           /\ evaluate(e.l).st = "None"
           /\ evaluate(e.r).st = "None"
    /\ Count(stderr, IsType) = 1

\* main is about to interpret a statement
AtStatement == pc = "run" /\ next_stmt <= Len(statements)

\* C13: interpreting a statement of either form whose expression has a type
\* error reports one Type diagnostic, prints nothing and ends the run, so that
\* no later statement is interpreted.
C13_ExprStatementsFailFast ==
    [][(AtStatement /\ evaluate(statements[next_stmt].expr).st = "None") =>
        /\ stdout' = stdout
        /\ Len(stderr') = Len(stderr) + 1
        /\ IsType(Last(stderr'))
        /\ pc' = "exit"
        /\ next_stmt' = next_stmt]_vars

\* evaluating the tree comes to apply an and / or to two values: going left
\* to right, no operand before it fails
RECURSIVE AppliesAndOr(_)
AppliesAndOr(expr) ==
    CASE expr.e = "Literal" -> FALSE
      [] expr.e = "Unary" -> AppliesAndOr(expr.operand)
      [] expr.e = "Grouping" -> AppliesAndOr(expr.inner)
      [] expr.e = "Binary" ->
           \/ AppliesAndOr(expr.l)
           \/ /\ evaluate(expr.l).st = "Some"
              /\ \/ AppliesAndOr(expr.r)
                 \/ evaluate(expr.r).st = "Some" /\ expr.op.kind \in {"And", "Or"}

\* C14 as the specification states it, on the programs all of whose
\* statements are prints (so that every expression is one main comes to
\* evaluate unless it has returned): no program that was lexed and parsed and
\* has an and / or in it runs to the end of main.
C14_EveryAndOrProgramPanics ==
    ~ /\ pc = "exit"
      /\ parse_result = "Some"
      /\ \A i \in 1..Len(statements) : statements[i].s = "Print"
      /\ \E i \in 1..Len(statements) : HasAndOr(statements[i].expr)

\* C14, amended: interpreting a statement reaches unreachable!() exactly when
\* the statement is a print whose evaluation comes to apply an and / or to two
\* values; and interpreting a statement with an and / or never prints.
C14_AppliedAndOrPanics ==
    [][AtStatement =>
        LET stmt == statements[next_stmt]
        IN  /\ pc' = "panic" <=> (stmt.s = "Print" /\ AppliesAndOr(stmt.expr))
            /\ HasAndOr(stmt.expr) => stdout' = stdout]_vars

\* print 1, then print 1 and 2: the first printed, the second panicked
C14_Witness ==
    /\ pc = "panic"
    /\ next_stmt = 2
    /\ Len(stdout) = 1
    /\ statements[2].s = "Print"
    /\ HasAndOr(statements[2].expr)

\* main is about to interpret a print statement the expression of which is
\* l op r
AtPrintBinary == AtPrint /\ statements[next_stmt].expr.e = "Binary"

\* the diagnostics evaluating the tree alone prints
Diagnostics(expr) == evaluate(expr).err

\* both operands of l op r are ill-typed
BothFail(e) == evaluate(e.l).st = "None" /\ evaluate(e.r).st = "None"

\* C16 as the specification states it: when both operands of l op r have a
\* type error, the one in r is diagnosed too.
C16_RightOperandAlwaysEvaluated ==
    [][(AtPrintBinary /\ BothFail(statements[next_stmt].expr)) =>
        LET e == statements[next_stmt].expr
        IN  \E i \in 1..Len(stderr') : <<stderr'[i]>> = Diagnostics(e.r)]_vars

\* C16, amended: l is evaluated first and r only once l has yielded a value.
\* When l fails, its diagnostic is the only one and nothing of r is diagnosed;
\* when l yields a value and r fails, the diagnostic of r is the only one.
C16_RightOperandAfterLeftValue ==
    [][AtPrintBinary =>
        LET e == statements[next_stmt].expr
        IN  /\ evaluate(e.l).st = "None" =>
                  /\ stderr' = stderr \o Diagnostics(e.l)
                  /\ stdout' = stdout
                  /\ pc' = "exit"
            /\ (evaluate(e.l).st = "Some" /\ evaluate(e.r).st = "None") =>
                  /\ stderr' = stderr \o Diagnostics(e.r)
                  /\ stdout' = stdout
                  /\ pc' = "exit"]_vars

\* ("a" - 1) < (1 - "a") was evaluated: only "a" - 1 was diagnosed
C16_Witness ==
    /\ pc = "exit"
    /\ Len(statements) = 1
    /\ statements[1].s = "Print"
    /\ statements[1].expr.e = "Binary"
    /\ BothFail(statements[1].expr)
    /\ Diagnostics(statements[1].expr.l) # Diagnostics(statements[1].expr.r)
    /\ stderr = Diagnostics(statements[1].expr.l)

----------------------------------------------------------------------------
(* Recovery and the parser's cursor *)

\* the token at the 0-based index i, as the parser's cursor counts
TokenAt(i) == parser.tokens[i + 1]

\* the indices from the cursor on at which a Newline token stands
NewlinesAhead ==
    {i \in parser.cursor..(Len(parser.tokens) - 1) : TokenAt(i).kind = "Newline"}

FirstNewlineAhead == CHOOSE i \in NewlinesAhead : \A j \in NewlinesAhead : i <= j

\* C15: synchronize advances the cursor by one token, then stops either just
\* after a Newline or on an if, func, let, loop or Eof token, and leaves every
\* token after the first Newline that follows the failure unconsumed.
C15_SynchronizeStopsAtNewline ==
    [][pc = "sync" =>
        LET c == parser'.cursor
        IN  /\ c >= parser.cursor + 1
            /\ \/ c >= 1 /\ TokenAt(c - 1).kind = "Newline"
               \/ /\ c < Len(parser.tokens)
                  /\ TokenAt(c).kind \in {"If", "Func", "Let", "Loop", "Eof"}
            /\ NewlinesAhead # {} => c <= FirstNewlineAhead + 1]_vars

\* the parser has indexed tokens outside the sequence, or subtracted 1 from
\* the length of an empty one: main panicked before collect_statements
\* returned
ParserPanicked == pc = "panic" /\ lex_result = "Some" /\ parse_result = "Pending"

\* C17: on the tokens of a successful lex, whatever they end with and also
\* when there is none, the parser reads no token outside the sequence and
\* reached_end does not compute the length of an empty sequence minus 1.
C17_ParserStaysInBounds == ~ParserPanicked

\* the parser's tokens end with Eof
EofTerminated == parser.tokens # <<>> /\ Last(parser.tokens).kind = "Eof"

\* collect_statements is at the top of its loop, and takes it
AtParseLoop == pc = "parse" /\ parser.cursor < Len(parser.tokens) - 1

\* C18: on tokens that end with Eof, the call of parse_statement in an
\* iteration of collect_statements moves the cursor forward, synchronize never
\* moves it back, neither panics, and the cursor stays within the sequence:
\* the loop ends after at most as many iterations as there are tokens.
C18_CollectStatementsTerminates ==
    /\ [][(EofTerminated /\ AtParseLoop) =>
            /\ parser'.cursor > parser.cursor
            /\ pc' \in {"parse", "sync"}]_vars
    /\ [][(EofTerminated /\ pc = "sync") =>
            /\ parser'.cursor >= parser.cursor
            /\ pc' = "parse"]_vars
    /\ [](EofTerminated => parser.cursor <= Len(parser.tokens))

\* after a statement failed and synchronize ran, the loop goes on with tokens
\* left to parse
C18_Witness ==
    /\ EofTerminated
    /\ AtParseLoop
    /\ parse_error
    /\ parser.cursor > 0

====
